---- MODULE Spec2Model ----
(***************************************************************************)
(* Tunnel lifecycle supervisor and system-readiness coordinator of         *)
(* zebra-pdf: the three tunnel providers (cloudflare_named,                *)
(* cloudflare_quick, ngrok), the PID files and agent processes they        *)
(* supervise, the SQLite tunnel_configs table, ProcessManager, and the     *)
(* SystemStatus coordinator.  The POSIX branches of the code are modelled. *)
(*                                                                         *)
(* Every handler is one action.  What the environment decides during a     *)
(* call (does the spawned agent survive the start-up sleep, does a process *)
(* die between two liveness probes, what a backend command answers) is an  *)
(* input of the action, drawn with \E.  What is installed on the host is   *)
(* chosen once, in the initial state.                                      *)
(*                                                                         *)
(* Left out: fields the program writes and never reads in the modelled     *)
(* operations (_tunnel_url of the two Cloudflare providers, the timestamps *)
(* and config_data of a record, the log file of the named provider), and   *)
(* the legacy provider `cloudflare` (tunnel/cloudflare.py), which is       *)
(* registered before the three modelled ones and has its own PID file.     *)
(***************************************************************************)
EXTENDS Integers, Sequences, FiniteSets, TLC

\* ------------------------------------------------------------------ bounds
\* Number of process identifiers the OS hands out (PIDs are reused).
MaxPid == 2

PIDs == 1..MaxPid

\* Largest timeout (in polls) a caller passes to terminate_process_group.
MaxTimeout == 2

\* ------------------------------------------------------- program constants
NoFile == 0          \* os.path.exists(pid_file) is False
None == <<>>         \* Python None for optional strings (URL, domain)
NoRecord == [name |-> "none"]

Named == "cloudflare_named"
Quick == "cloudflare_quick"
Ngrok == "ngrok"
Free == "free"
Other == "other"     \* a process that is no tunnel agent
Zombie == "zombie"   \* a process that has exited and that its parent has not
                     \* reaped: the PID is still in the process table

Foreign == "foreign" \* a live process of another user: os.kill(pid, 0) raises
                     \* PermissionError, a subclass of OSError

\* tunnel_providers dict of ZebraPrintApplication, in insertion order (after
\* the legacy provider)
ProviderOrder == <<Named, Quick, Ngrok>>

Providers == {ProviderOrder[i] : i \in 1..Len(ProviderOrder)}

\* for attempt in range(30)
PollLimit == 30

VARIABLES
    owner,        \* process table: PID -> Free, or the provider whose agent runs
                  \* under it, or Other
    pidFile,      \* provider -> content of its PID file, or NoFile
    logFile,      \* the cloudflare_quick log file exists
    rows,         \* tunnel_configs table: sequence of records in rowid order
    customDomain, \* CloudflareNamedTunnel.custom_domain
    ngrokUrl,     \* NgrokTunnel._tunnel_url
    activeTunnel, \* SystemStatus._active_tunnel (a provider name or "none")
    remoteTunnel, \* the named tunnel exists at the backend
    credFile,     \* a credentials file for the tunnel can be discovered
    dnsRecord,    \* set of domains with a DNS route at the backend
    backendConn,  \* the backend lists connections for the named tunnel
    installed,    \* what is installed on the host: binaries on PATH and
                  \* authentication artifacts
    ret           \* result of the last call

vars == <<owner, pidFile, logFile, rows, customDomain, ngrokUrl, activeTunnel,
          remoteTunnel, credFile, dnsRecord, backendConn, installed, ret>>

\* `installed` never changes: the host is set up before the program runs
setupVars == <<remoteTunnel, credFile, dnsRecord, installed>>

Artifacts == {"cloudflared", "cert.pem", "ngrok", "ngrok authtoken"}

\* ------------------------------------------------------------ input sets
\* custom domains a caller configures, as sequences of characters
Domains == { <<"a", ".", "b">> }

\* public URLs the quick backend may publish in its log
QuickUrls == { <<"https://", "q", ".trycloudflare.com">> }

\* public URLs the ngrok management API may report
NgrokUrls == { <<"https://", "n", ".ngrok.io">> }

\* ---------------------------------------------------------- string helpers
\* str(x) inside an f-string: None prints as "None"
Str(x) == IF x = None THEN <<"None">> ELSE x

\* f"https://{domain}"
HttpsUrl(domain) == <<"https://">> \o Str(domain)

\* url + '/print'
WebhookOf(url) == url \o <<"/print">>

\* ------------------------------------------------------------ config store
\* TunnelConfig(name, is_configured=True, domain_mapping=d): the dataclass
\* defaults give is_active=False and current_url=None
NewConfig(n, d) ==
    [name |-> n, is_configured |-> TRUE, is_active |-> FALSE,
     current_url |-> None, domain_mapping |-> d]

SelectSeqNot(t, n) == SelectSeq(t, LAMBDA r : r.name # n)

\* a save that keeps is_active and current_url of the record it replaces
save_tunnel_config_keep_status(t, c) ==
    LET old == SelectSeq(t, LAMBDA r : r.name = c.name) IN
    Append(SelectSeqNot(t, c.name),
           IF old = <<>> THEN c
           ELSE [c EXCEPT !.is_active = old[1].is_active,
                          !.current_url = old[1].current_url])

\* INSERT OR IGNORE: a row of that name, if any, is kept as it is
save_tunnel_config_ignore(t, c) ==
    IF \E i \in 1..Len(t) : t[i].name = c.name THEN t ELSE Append(t, c)

\* INSERT OR REPLACE: the row of that name is deleted, the new row is appended
save_tunnel_config(t, c) == Append(SelectSeqNot(t, c.name), c)

\* SELECT * FROM tunnel_configs WHERE name = ? ... fetchone()
get_tunnel_config(t, n) ==
    IF \E i \in 1..Len(t) : t[i].name = n
    THEN t[CHOOSE i \in 1..Len(t) : t[i].name = n]
    ELSE NoRecord

\* UPDATE tunnel_configs SET is_active = ?, current_url = ? WHERE name = ?
update_tunnel_status(t, n, a, u) ==
    [i \in 1..Len(t) |->
        IF t[i].name = n
        THEN [t[i] EXCEPT !.is_active = a, !.current_url = u]
        ELSE t[i]]

\* [tc for tc in get_all_tunnel_configs() if tc.is_active]
configured_tunnels_flagged_active(t) == SelectSeq(t, LAMBDA r : r.is_active)

\* [tc for tc in get_all_tunnel_configs() if tc.is_configured]
configured_tunnels(t) == SelectSeq(t, LAMBDA r : r.is_configured)

\* ------------------------------------------------------- process supervisor
\* os.kill(pid, 0) succeeds: some process that this user may signal runs under
\* that PID (`except (OSError, ProcessLookupError)` answers False for a
\* process of another user as for a free PID)
is_process_running(own, pid) == own[pid] \notin {Free, Foreign}

\* the set of live agent processes a provider's start() has spawned
Agents(own, p) == {pid \in PIDs : own[pid] = p}

\* the process table after the processes in D have exited
Exit(own, D) == [pid \in PIDs |-> IF pid \in D THEN Free ELSE own[pid]]

\* subprocess.Popen(cmd, ...): the OS runs the agent of provider p under a PID
\* that is not in use
Popen(own, pid, p) == [own EXCEPT ![pid] = p]

\* os.killpg(os.getpgid(pid), SIGTERM) on a live process: it exits, unless it
\* ignores the signal (obeys = FALSE)
SigTerm(own, pid, obeys) == IF obeys THEN Exit(own, {pid}) ELSE own

\* ------------------------------------------------------- provider liveness
\* The files and processes a liveness probe reads and may change are threaded
\* through the probes of one call as a record:
\*   pf  provider -> PID file content,  lg  quick log file,  own  process table
Files == [pf |-> pidFile, lg |-> logFile, own |-> owner]

\* pgrep -f 'cloudflared.*<tunnel_name>' finds a process: only the agents that
\* CloudflareNamedTunnel.start launched carry the tunnel name on their command line
pgrep_named(own) == Agents(own, Named) # {}

\* Method 3 of the health check: `cloudflared tunnel list` exits 0 and the line
\* of this tunnel has at least 4 fields (ID, NAME, CREATED, CONNECTIONS)
tunnel_list_connected ==
    {"cloudflared", "cert.pem"} \subseteq installed /\ backendConn

\* CloudflareNamedTunnel._verify_tunnel_health: method 2 is only tried after
\* method 1 (PID file present and os.kill(pid, 0) passes); method 3 is tried
\* whenever the first two did not return True.  The PID file is never removed.
verify_tunnel_health(st) ==
    \/ /\ st.pf[Named] # NoFile
       /\ is_process_running(st.own, st.pf[Named])
       /\ pgrep_named(st.own)
    \/ tunnel_list_connected

\* CloudflareQuickTunnel.is_active / NgrokTunnel.is_active: PID file present
\* and os.kill(pid, 0) passes
pid_probe(p, st) ==
    st.pf[p] # NoFile /\ is_process_running(st.own, st.pf[p])

\* is_active() of provider p
is_active(p, st) ==
    IF p = Named THEN verify_tunnel_health(st) ELSE pid_probe(p, st)

\* the PID file of p is present and the PID in it is dead
Stale(p, st) == st.pf[p] # NoFile /\ ~is_process_running(st.own, st.pf[p])

\* an is_active() that deletes the PID file whatever the probe found
after_is_active_always(p, st) ==
    IF p # Named /\ st.pf[p] # NoFile
    THEN [st EXCEPT !.pf[p] = NoFile,
                    !.lg = IF p = Quick THEN FALSE ELSE @]
    ELSE st

\* The files after is_active() of provider p: quick and ngrok remove the stale
\* PID file in their except branch (quick its log file too); the named
\* provider removes nothing
after_is_active(p, st) ==
    IF p # Named /\ Stale(p, st)
    THEN [st EXCEPT !.pf[p] = NoFile,
                    !.lg = IF p = Quick THEN FALSE ELSE @]
    ELSE st

\* ------------------------------------------------------------------- state
NoRet == [op |-> "none"]

Init ==
    /\ owner = [pid \in PIDs |-> Free]
    /\ pidFile = [p \in Providers |-> NoFile]
    /\ logFile = FALSE
    /\ rows = <<>>
    /\ customDomain = None
    /\ ngrokUrl = None
    /\ activeTunnel = "none"
    /\ remoteTunnel \in BOOLEAN
    /\ credFile = FALSE
    /\ dnsRecord = {}
    /\ backendConn = FALSE
    /\ installed \in SUBSET Artifacts
    /\ ret = NoRet

\* ------------------------------------------------------------- environment
\* a running process exits on its own (crash, kill from outside) and is reaped
ProcessDies(pid) ==
    /\ owner[pid] \notin {Free, Zombie}
    /\ owner' = Exit(owner, {pid})
    /\ UNCHANGED <<pidFile, logFile, rows, customDomain, ngrokUrl, activeTunnel,
                   setupVars, backendConn, ret>>

\* the OS gives a free PID to a process that is no tunnel agent
OtherProcessStarts(pid) ==
    /\ owner[pid] = Free
    /\ owner' = Popen(owner, pid, Other)
    /\ UNCHANGED <<pidFile, logFile, rows, customDomain, ngrokUrl, activeTunnel,
                   setupVars, backendConn, ret>>

\* the OS gives a free PID to a process of another user
ForeignProcessStarts(pid) ==
    /\ owner[pid] = Free
    /\ owner' = Popen(owner, pid, Foreign)
    /\ UNCHANGED <<pidFile, logFile, rows, customDomain, ngrokUrl, activeTunnel,
                   setupVars, backendConn, ret>>

\* the backend's connection list for the named tunnel changes: a connector of
\* the tunnel (this host's agent or another host's) registers or drops
BackendConnChanges ==
    /\ backendConn' = ~backendConn
    /\ backendConn' => remoteTunnel
    /\ UNCHANGED <<owner, pidFile, logFile, rows, customDomain, ngrokUrl,
                   activeTunnel, setupVars, ret>>

\* ------------------------------------------------------------- is_active()
\* The result record of is_active(): the answer, and on entry: was the PID
\* file present (hadFile), was its PID dead (stale); at return: is the PID file
\* present (hasFile)
IsActive(p) ==
    LET st1 == after_is_active(p, Files) IN
    /\ pidFile' = st1.pf
    /\ logFile' = st1.lg
    /\ ret' = [op |-> "is_active", p |-> p, result |-> is_active(p, Files),
               hadFile |-> pidFile[p] # NoFile, stale |-> Stale(p, Files),
               hasFile |-> st1.pf[p] # NoFile]
    /\ UNCHANGED <<owner, rows, customDomain, ngrokUrl, activeTunnel, setupVars,
                   backendConn>>

\* ------------------------------------------------------------------ start()
\* polls of the URL-discovery loop at which the URL may show up in the log
\* (PollLimit + 1: it never does within the loop)
PollPoints == {1, PollLimit, PollLimit + 1}

\* The result record of start(): the returned (ok, url) and what the call did.
\*   active0     what is_active() answered on entry
\*   configured0 a persisted record with is_configured=true existed on entry
\*   spawned     Popen created a process
\*   samePid     the PID file holds at return what it held on entry
\*   liveAfter   the PID file at return names a live agent of the provider
\*   activeAfter what is_active() answers at return
\*   polls       iterations of the URL-discovery loop
\*   retry       the previous call was a start() of the same provider that
\*               spawned an agent and returned ok=false
StartRet(p, ok, url, a0, spawned, pfAfter, ownAfter, polls) ==
    [op |-> "start", p |-> p, ok |-> ok, url |-> url, active0 |-> a0,
     retry |-> (ret.op = "start" /\ ret.p = p /\ ~ret.ok /\ ret.spawned),
     configured0 |-> (get_tunnel_config(rows, p) # NoRecord
                      /\ get_tunnel_config(rows, p).is_configured),
     spawned |-> spawned,
     samePid |-> pfAfter[p] = pidFile[p],
     liveAfter |-> pfAfter[p] # NoFile /\ ownAfter[pfAfter[p]] = p,
     activeAfter |-> is_active(p, [pf |-> pfAfter, lg |-> logFile, own |-> ownAfter]),
     polls |-> polls]

\* CloudflareNamedTunnel.start.  Inputs: the PID the OS gives the agent and
\* whether the agent is still running after time.sleep(2) (the command is run
\* through nohup, so Popen succeeds even when cloudflared is missing and the
\* process then exits at once).
StartNamed(pid, survives) ==
    LET a0 == is_active(Named, Files)
        stored == get_tunnel_config(rows, Named)
        dom == IF stored # NoRecord /\ stored.domain_mapping # None
               THEN stored.domain_mapping ELSE customDomain
        own1 == Popen(owner, pid, Named)
        own2 == IF survives THEN own1 ELSE Exit(own1, {pid})
        pf2 == [pidFile EXCEPT ![Named] = pid]
        st2 == [pf |-> pf2, lg |-> logFile, own |-> own2]
        healthy == verify_tunnel_health(st2)
        url == HttpsUrl(dom)
    IN
    IF a0 THEN
        \* "Named tunnel already running"
        /\ ret' = StartRet(Named, TRUE, HttpsUrl(customDomain), TRUE, FALSE,
                           pidFile, owner, 0)
        /\ UNCHANGED <<owner, pidFile, logFile, rows, customDomain, ngrokUrl,
                       activeTunnel, setupVars, backendConn>>
    ELSE IF stored = NoRecord \/ ~stored.is_configured THEN
        \* "Tunnel not configured. Run setup first."
        /\ ret' = StartRet(Named, FALSE, None, FALSE, FALSE, pidFile, owner, 0)
        /\ UNCHANGED <<owner, pidFile, logFile, rows, customDomain, ngrokUrl,
                       activeTunnel, setupVars, backendConn>>
    ELSE
        /\ owner[pid] = Free
        /\ survives => "cloudflared" \in installed
        /\ customDomain' = dom
        /\ owner' = own2
        /\ pidFile' = pf2
        /\ IF healthy
           THEN /\ rows' = update_tunnel_status(rows, Named, TRUE, url)
                /\ ret' = StartRet(Named, TRUE, url, FALSE, TRUE, pf2, own2, 0)
           ELSE /\ ret' = StartRet(Named, FALSE, None, FALSE, TRUE, pf2, own2, 0)
                /\ UNCHANGED rows
        /\ UNCHANGED <<logFile, ngrokUrl, activeTunnel, setupVars, backendConn>>

\* `while tunnel_url is None`: the loop goes on until the URL shows up
url_found_unbounded(k) == TRUE

\* `for attempt in range(30)`: the URL that shows up in the log at poll k is
\* found if the loop gets that far
url_found(k) == k <= PollLimit

\* CloudflareQuickTunnel.start.  Inputs: the agent's PID, whether the agent is
\* still running when start() returns, the poll at which its URL shows up in
\* the log, and that URL.  The result record of a call that spawned also
\* holds that poll (urlPoll).
StartQuick(pid, survives, k, u) ==
    LET a0 == is_active(Quick, Files)
        st1 == after_is_active(Quick, Files)
        stored == get_tunnel_config(rows, Quick)
        found == url_found(k)
        polls == IF found THEN k ELSE PollLimit
        own1 == Popen(owner, pid, Quick)
        own2 == IF survives THEN own1 ELSE Exit(own1, {pid})
        pf2 == [st1.pf EXCEPT ![Quick] = pid]
    IN
    IF a0 /\ stored # NoRecord /\ stored.current_url # None THEN
        \* "Quick tunnel already running"
        /\ ret' = StartRet(Quick, TRUE, stored.current_url, TRUE, FALSE,
                           pidFile, owner, 0)
        /\ UNCHANGED <<owner, pidFile, logFile, rows, customDomain, ngrokUrl,
                       activeTunnel, setupVars, backendConn>>
    ELSE IF "cloudflared" \notin installed THEN
        \* open(log_file, 'w') creates the log, Popen raises FileNotFoundError
        /\ pidFile' = st1.pf
        /\ logFile' = TRUE
        /\ ret' = StartRet(Quick, FALSE, None, a0, FALSE, st1.pf, owner, 0)
        /\ UNCHANGED <<owner, rows, customDomain, ngrokUrl, activeTunnel,
                       setupVars, backendConn>>
    ELSE
        /\ owner[pid] = Free
        /\ owner' = own2
        /\ pidFile' = pf2
        /\ logFile' = TRUE
        /\ IF found
           THEN /\ rows' = update_tunnel_status(rows, Quick, TRUE, u)
                /\ ret' = StartRet(Quick, TRUE, u, a0, TRUE, pf2, own2, polls)
                              @@ [urlPoll |-> k]
           ELSE /\ ret' = StartRet(Quick, FALSE, None, a0, TRUE, pf2, own2, polls)
                              @@ [urlPoll |-> k]
                /\ UNCHANGED rows
        /\ UNCHANGED <<customDomain, ngrokUrl, activeTunnel, setupVars, backendConn>>

\* NgrokTunnel._get_tunnel_url_from_api: the public_url of the https tunnel the
\* management API reports (api), None when the API is not available or lists
\* no https tunnel.  The API is served by a running ngrok agent.
ApiAnswers(own) ==
    IF Agents(own, Ngrok) # {} THEN NgrokUrls \cup {None} ELSE {None}

\* NgrokTunnel.get_status: `url` of the status and the _tunnel_url it leaves.
\* The URL is asked from the API only when none is cached and the tunnel is active.
ngrok_status_url(active, cached, api) ==
    IF cached = None /\ active THEN api ELSE cached

\* NgrokTunnel.start.  Inputs: the agent's PID, whether the agent is still
\* running after time.sleep(3), and what the management API reports then.
StartNgrok(pid, survives, api) ==
    LET a0 == is_active(Ngrok, Files)
        st1 == after_is_active(Ngrok, Files)
        own1 == Popen(owner, pid, Ngrok)
        own2 == IF survives THEN own1 ELSE Exit(own1, {pid})
        pf2 == [st1.pf EXCEPT ![Ngrok] = pid]
    IN
    IF a0 THEN
        \* "Tunnel already running": the URL comes from get_status()
        /\ api \in ApiAnswers(owner)
        /\ ngrokUrl' = ngrok_status_url(TRUE, ngrokUrl, api)
        /\ ret' = StartRet(Ngrok, TRUE, ngrokUrl', TRUE, FALSE, pidFile, owner, 0)
        /\ UNCHANGED <<owner, pidFile, logFile, rows, customDomain, activeTunnel,
                       setupVars, backendConn>>
    ELSE IF "ngrok" \notin installed THEN
        \* Popen raises FileNotFoundError
        /\ pidFile' = st1.pf
        /\ ret' = StartRet(Ngrok, FALSE, None, FALSE, FALSE, st1.pf, owner, 0)
        /\ UNCHANGED <<owner, logFile, rows, customDomain, ngrokUrl, activeTunnel,
                       setupVars, backendConn>>
    ELSE
        /\ owner[pid] = Free
        /\ api \in ApiAnswers(own2)
        /\ owner' = own2
        /\ pidFile' = pf2
        /\ ngrokUrl' = api
        /\ ret' = StartRet(Ngrok, api # None, api, FALSE, TRUE, pf2, own2, 0)
        /\ UNCHANGED <<logFile, rows, customDomain, activeTunnel, setupVars,
                       backendConn>>

\* ------------------------------------------------------------------- stop()
\* The result record of stop().
\*   hadFile   the PID file existed on entry
\*   running0  a live agent of the provider existed on entry
\*   signalled SIGTERM was sent
\*   hasFile   the PID file exists at return
\*   liveAfter number of live agents of the provider at return
StopRet(p, ok, signalled, pfAfter, ownAfter) ==
    [op |-> "stop", p |-> p, ok |-> ok,
     hadFile |-> pidFile[p] # NoFile,
     running0 |-> Agents(owner, p) # {},
     signalled |-> signalled,
     hasFile |-> pfAfter[p] # NoFile,
     liveAfter |-> Cardinality(Agents(ownAfter, p))]

\* stop() of CloudflareNamedTunnel, CloudflareQuickTunnel and NgrokTunnel (the
\* three bodies differ in the files removed and in the store update only).
\* Input: whether the signalled process exits on SIGTERM within time.sleep(2).
Stop(p, obeys) ==
    LET pid == pidFile[p]
        own1 == SigTerm(owner, pid, obeys)
        pf1 == [pidFile EXCEPT ![p] = NoFile]
    IN
    IF pid = NoFile THEN
        \* "Tunnel not running"
        /\ ret' = StopRet(p, TRUE, FALSE, pidFile, owner)
        /\ UNCHANGED <<owner, pidFile, logFile, rows, customDomain, ngrokUrl,
                       activeTunnel, setupVars, backendConn>>
    ELSE IF ~is_process_running(owner, pid) THEN
        \* os.getpgid(pid) raises ProcessLookupError: "Failed to stop tunnel"
        /\ ret' = StopRet(p, FALSE, FALSE, pidFile, owner)
        /\ UNCHANGED <<owner, pidFile, logFile, rows, customDomain, ngrokUrl,
                       activeTunnel, setupVars, backendConn>>
    ELSE
        /\ owner' = own1
        /\ pidFile' = pf1
        /\ logFile' = IF p = Quick THEN FALSE ELSE logFile
        /\ ngrokUrl' = IF p = Ngrok THEN None ELSE ngrokUrl
        /\ rows' = IF p = Ngrok THEN rows
                   ELSE update_tunnel_status(rows, p, FALSE, None)
        /\ ret' = StopRet(p, TRUE, TRUE, pf1, own1)
        /\ UNCHANGED <<customDomain, activeTunnel, setupVars, backendConn>>

\* ------------------------------------------------------------- get_status()
\* `url` of the status record of provider p, given what is_active() answered
status_url(p, active, api) ==
    LET stored == get_tunnel_config(rows, p) IN
    IF p = Ngrok THEN ngrok_status_url(active, ngrokUrl, api)
    ELSE IF stored = NoRecord THEN None
    ELSE IF p = Named /\ stored.domain_mapping # None /\ active
         THEN HttpsUrl(stored.domain_mapping)
    ELSE stored.current_url

\* `pid` of the status record: the content of the PID file after is_active()
status_pid(p, st) == after_is_active(p, st).pf[p]

\* get_status() of provider p on the files st: the status record
get_status(p, st, api) ==
    [active |-> is_active(p, st),
     url |-> status_url(p, is_active(p, st), api),
     pid |-> status_pid(p, st)]

\* get_status() of provider p.  Input: what the ngrok management API reports.
GetStatus(p, api) ==
    LET st1 == after_is_active(p, Files)
        status == get_status(p, Files, api)
    IN
    /\ api \in (IF p = Ngrok THEN ApiAnswers(owner) ELSE {None})
    /\ pidFile' = st1.pf
    /\ logFile' = st1.lg
    /\ ngrokUrl' = IF p = Ngrok THEN status.url ELSE ngrokUrl
    /\ ret' = [op |-> "get_status", p |-> p, status |-> status]
    /\ UNCHANGED <<owner, rows, customDomain, activeTunnel, setupVars, backendConn>>

\* ---------------------------------------------------- set_custom_domain()
\* `not domain or '.' not in domain`
InvalidDomain(d) == d = <<>> \/ ~(\E i \in 1..Len(d) : d[i] = ".")

\* domains a caller passes to set_custom_domain
DomainInputs == Domains \cup { <<>>, <<"a">> }

\* the characters a domain argument is made of: a lowercase letter, an
\* uppercase letter, a blank and the label separator
DomainChars == {"a", "A", " ", "."}

MaxDomainLen == 3

\* every string of at most MaxDomainLen characters
DomainStrings == UNION { [1..n -> DomainChars] : n \in 0..MaxDomainLen }

\* CloudflareNamedTunnel.set_custom_domain
\*   domain0, record0   self.custom_domain and the provider's persisted
\*                      record on entry
SetCustomDomain(d) ==
    IF InvalidDomain(d) THEN
        /\ ret' = [op |-> "set_custom_domain", p |-> Named, ok |-> FALSE,
                   domain |-> d, domain0 |-> customDomain,
                   record0 |-> get_tunnel_config(rows, Named)]
        /\ UNCHANGED <<owner, pidFile, logFile, rows, customDomain, ngrokUrl,
                       activeTunnel, setupVars, backendConn>>
    ELSE
        /\ customDomain' = d
        /\ rows' = save_tunnel_config(rows, NewConfig(Named, d))
        /\ ret' = [op |-> "set_custom_domain", p |-> Named, ok |-> TRUE,
                   domain |-> d, domain0 |-> customDomain,
                   record0 |-> get_tunnel_config(rows, Named)]
        /\ UNCHANGED <<owner, pidFile, logFile, ngrokUrl, activeTunnel, setupVars,
                       backendConn>>

\* ------------------------------------------------------------------ setup()
\* The result record of setup().
\*   steps    the steps the call executed, in order
\*   created  a `cloudflared tunnel create` request was issued
\*   dns      the answer of `cloudflared tunnel route dns`, "none" if not asked
\*   again    the previous call was a setup() of the same provider that returned ok
\*   untouched  the provider's persisted record is at return exactly what it
\*            was on entry (hadRecord: there was one on entry)
\*   kept     is_configured and domain_mapping of the provider's persisted
\*            record are at return what they were on entry
SetupRet(p, ok, steps, created, dns, rowsAfter) ==
    [op |-> "setup", p |-> p, ok |-> ok, steps |-> steps, created |-> created,
     dns |-> dns,
     again |-> (ret.op = "setup" /\ ret.p = p /\ ret.ok),
     untouched |-> get_tunnel_config(rowsAfter, p) = get_tunnel_config(rows, p),
     hadRecord |-> get_tunnel_config(rows, p) # NoRecord,
     kept |-> LET b == get_tunnel_config(rows, p)
                  a == get_tunnel_config(rowsAfter, p)
              IN  IF b = NoRecord \/ a = NoRecord THEN a = b
                  ELSE /\ a.is_configured = b.is_configured
                       /\ a.domain_mapping = b.domain_mapping]

\* the answer of the DNS route request is not looked at
dns_failed_never(ans) == FALSE

\* every answer but a fresh route counts as a failure
dns_failed_on_existing(ans) == ans # "created"

\* dns_result.returncode != 0 and "already exists" not in dns_result.stderr
dns_failed(ans) == ans \notin {"created", "already exists"}

\* answers of the backend to `cloudflared tunnel route dns` for a domain that
\* has no route yet
DnsAnswers == {"created", "DNS error", "other error"}

\* CloudflareNamedTunnel.setup.  Inputs: whether a `tunnel create` request
\* succeeds, and what the backend answers to a DNS route request for a domain
\* without a route.
SetupNamed(createOK, dnsAns) ==
    LET stored == get_tunnel_config(rows, Named)
        dom == IF customDomain # None THEN customDomain
               ELSE IF stored # NoRecord /\ stored.domain_mapping # None
                    THEN stored.domain_mapping ELSE None
        needCreate == ~remoteTunnel
        cf1 == credFile \/ needCreate
        ans == IF dom \in dnsRecord THEN "already exists" ELSE dnsAns
        fail(steps, created, dns) ==
            ret' = SetupRet(Named, FALSE, steps, created, dns, rows)
    IN
    IF "cloudflared" \notin installed THEN
        /\ fail(<<"binary">>, FALSE, "none")
        /\ UNCHANGED <<owner, pidFile, logFile, rows, customDomain, ngrokUrl,
                       activeTunnel, setupVars, backendConn>>
    ELSE IF "cert.pem" \notin installed THEN
        /\ fail(<<"binary", "auth">>, FALSE, "none")
        /\ UNCHANGED <<owner, pidFile, logFile, rows, customDomain, ngrokUrl,
                       activeTunnel, setupVars, backendConn>>
    ELSE IF dom = None THEN
        /\ fail(<<"binary", "auth", "domain">>, FALSE, "none")
        /\ UNCHANGED <<owner, pidFile, logFile, rows, customDomain, ngrokUrl,
                       activeTunnel, setupVars, backendConn>>
    ELSE IF needCreate /\ ~createOK THEN
        /\ customDomain' = dom
        /\ fail(<<"binary", "auth", "domain", "tunnel">>, TRUE, "none")
        /\ UNCHANGED <<owner, pidFile, logFile, rows, ngrokUrl, activeTunnel,
                       setupVars, backendConn>>
    ELSE
        \* `tunnel create` writes the credentials file of the new tunnel
        /\ remoteTunnel' = TRUE
        /\ credFile' = cf1
        /\ customDomain' = dom
        /\ IF ~cf1 THEN
              \* _create_named_tunnel_config raises: no credentials file
              /\ fail(<<"binary", "auth", "domain", "tunnel", "config">>,
                      needCreate, "none")
              /\ UNCHANGED <<rows, dnsRecord>>
           ELSE IF dns_failed(ans) THEN
              /\ fail(<<"binary", "auth", "domain", "tunnel", "config", "dns">>,
                      needCreate, ans)
              /\ UNCHANGED <<rows, dnsRecord>>
           ELSE
              /\ dnsRecord' = dnsRecord \cup {dom}
              /\ rows' = save_tunnel_config(rows, NewConfig(Named, dom))
              /\ ret' = SetupRet(Named, TRUE,
                                 <<"binary", "auth", "domain", "tunnel", "config",
                                   "dns", "persist">>, needCreate, ans, rows')
        /\ UNCHANGED <<owner, pidFile, logFile, ngrokUrl, activeTunnel, backendConn,
                       installed>>

\* CloudflareQuickTunnel.setup
SetupQuick ==
    IF "cloudflared" \notin installed THEN
        /\ ret' = SetupRet(Quick, FALSE, <<"binary">>, FALSE, "none", rows)
        /\ UNCHANGED <<owner, pidFile, logFile, rows, customDomain, ngrokUrl,
                       activeTunnel, setupVars, backendConn>>
    ELSE
        /\ rows' = save_tunnel_config(rows, NewConfig(Quick, None))
        /\ ret' = SetupRet(Quick, TRUE, <<"binary", "persist">>, FALSE, "none", rows')
        /\ UNCHANGED <<owner, pidFile, logFile, customDomain, ngrokUrl,
                       activeTunnel, setupVars, backendConn>>

\* NgrokTunnel.setup: `which ngrok`, then `ngrok config check` answers "valid"
SetupNgrok ==
    /\ ret' = IF "ngrok" \notin installed
              THEN SetupRet(Ngrok, FALSE, <<"binary">>, FALSE, "none", rows)
              ELSE SetupRet(Ngrok, "ngrok authtoken" \in installed,
                            <<"binary", "auth">>, FALSE, "none", rows)
    /\ UNCHANGED <<owner, pidFile, logFile, rows, customDomain, ngrokUrl,
                   activeTunnel, setupVars, backendConn>>

\* -------------------------------------------------------------- coordinator
\* get_active_tunnel, second half: the providers are probed in registration
\* order, the first one whose is_active() holds is returned (and cached)
RECURSIVE scan_providers(_, _)
scan_providers(i, st) ==
    IF i > Len(ProviderOrder) THEN [tunnel |-> "none", st |-> st]
    ELSE IF is_active(ProviderOrder[i], st)
         THEN [tunnel |-> ProviderOrder[i], st |-> st]
    ELSE scan_providers(i + 1, after_is_active(ProviderOrder[i], st))

\* SystemStatus.get_active_tunnel: the cached provider is probed first.  The
\* result is the provider found (or "none"), which is also the new cache, and
\* the files as the probes leave them.
get_active_tunnel(cached, st) ==
    IF cached # "none" /\ is_active(cached, st)
    THEN [tunnel |-> cached, st |-> st]
    ELSE scan_providers(1, IF cached = "none" THEN st
                           ELSE after_is_active(cached, st))

\* SystemStatus.get_active_tunnel called on its own.  The result record: the
\* provider returned, and the providers whose is_active() holds at the call
\* (active).
GetActiveTunnel ==
    /\ \E r \in {get_active_tunnel(activeTunnel, Files)} :
          /\ pidFile' = r.st.pf
          /\ logFile' = r.st.lg
          /\ activeTunnel' = r.tunnel
          /\ ret' = [op |-> "get_active_tunnel", tunnel |-> r.tunnel,
                     active |-> {p \in Providers : is_active(p, Files)}]
    /\ UNCHANGED <<owner, rows, customDomain, ngrokUrl, setupVars, backendConn>>

\* processes that may exit between two probes of one call: none or one
DeathInputs == {{}} \cup {{pid} : pid \in PIDs}

\* tunnel_info = None
NoTunnelInfo == [name |-> "none"]

\* SystemStatus.get_overall_status.  Inputs: what api_service.is_running() and
\* printer_service.is_ready() answer, what the ngrok management API reports,
\* the processes D1 that exit after get_active_tunnel() returned and before
\* the probe `active_tunnel.is_active()`, and the processes D2 that exit after
\* that probe and before `active_tunnel.get_status()`.
\* The result: the status dictionary, the files and processes at return, the
\* new _active_tunnel and the new NgrokTunnel._tunnel_url.
get_overall_status(api_running, printer_ready, api, D1, D2) ==
    LET found == get_active_tunnel(activeTunnel, Files)
        active_tunnel == found.tunnel
        st1 == [found.st EXCEPT !.own = Exit(@, D1)]
        configured == configured_tunnels(rows)
        probe == active_tunnel # "none" /\ is_active(active_tunnel, st1)
        st2 == IF active_tunnel = "none" THEN st1
               ELSE after_is_active(active_tunnel, st1)
        st3 == [st2 EXCEPT !.own = Exit(@, D2)]
        st4 == IF probe THEN after_is_active(active_tunnel, st3) ELSE st2
        tunnel_info ==
            IF probe THEN
                [name |-> active_tunnel,
                 is_permanent |-> active_tunnel = Named,
                 status |-> get_status(active_tunnel, st3, api),
                 configured |-> TRUE]
            ELSE IF configured # <<>> THEN
                [name |-> configured[1].name,
                 is_permanent |-> configured[1].name = Named,
                 status |-> [configured |-> TRUE, active |-> FALSE,
                             url |-> configured[1].current_url],
                 configured |-> TRUE]
            ELSE NoTunnelInfo
    IN
    [status |->
        [api_running |-> api_running,
         printer_ready |-> printer_ready,
         tunnel |-> tunnel_info,
         integration_ready |->
             api_running /\ printer_ready /\ active_tunnel # "none",
         webhook_url |->
             IF tunnel_info # NoTunnelInfo /\ tunnel_info.status.url # None
             THEN WebhookOf(tunnel_info.status.url) ELSE None],
     st |-> st4,
     activeTunnel |-> active_tunnel,
     ngrokUrl |-> IF probe /\ active_tunnel = Ngrok
                  THEN tunnel_info.status.url ELSE ngrokUrl,
     apiAsked |-> probe /\ active_tunnel = Ngrok]

\* SystemStatus.get_overall_status.  The result record: the status, and which
\* providers' is_active() holds on the files and processes on entry
\* (activeAtEntry) and at return (activeAtReturn).
GetOverallStatus(api_running, printer_ready, api, D1, D2) ==
    /\ \A pid \in D1 \cup D2 : owner[pid] # Free
    /\ D1 \cap D2 = {}
    /\ api # None => Agents(owner, Ngrok) # {}
    /\ \E r \in {get_overall_status(api_running, printer_ready, api, D1, D2)} :
          /\ api \in (IF r.apiAsked THEN ApiAnswers(r.st.own) ELSE {None})
          /\ owner' = r.st.own
          /\ pidFile' = r.st.pf
          /\ logFile' = r.st.lg
          /\ activeTunnel' = r.activeTunnel
          /\ ngrokUrl' = r.ngrokUrl
          /\ ret' = [op |-> "get_overall_status", status |-> r.status,
                     raised |-> FALSE, fault |-> "none",
                     activeAtEntry |-> {p \in Providers : is_active(p, Files)},
                     activeAtReturn |-> {p \in Providers : is_active(p, r.st)}]
    /\ UNCHANGED <<rows, customDomain, setupVars, backendConn>>

\* the collaborators get_overall_status() calls, in the order of their first
\* call: api_service, printer_service, the tunnel providers (is_active() inside
\* get_active_tunnel) and the config store (get_all_tunnel_configs)
Collaborators == {"api", "printer", "tunnel", "store"}

\* SystemStatus.get_overall_status when the first call to collaborator `fault`
\* raises.  The body has no try statement, so the exception leaves the call
\* (raised) and no status is returned; what the call did before the failing
\* line stays: the store is read after get_active_tunnel() has probed the
\* providers and set _active_tunnel.
GetOverallStatusFault(fault) ==
    /\ \E found \in {get_active_tunnel(activeTunnel, Files)} :
          /\ pidFile' = IF fault = "store" THEN found.st.pf ELSE pidFile
          /\ logFile' = IF fault = "store" THEN found.st.lg ELSE logFile
          /\ activeTunnel' = IF fault = "store" THEN found.tunnel ELSE activeTunnel
    /\ ret' = [op |-> "get_overall_status", raised |-> TRUE, fault |-> fault]
    /\ UNCHANGED <<owner, rows, customDomain, ngrokUrl, setupVars, backendConn>>

\* SystemStatus.is_system_ready: status['integration_ready']
is_system_ready(status) == status.integration_ready

\* SystemStatus.get_recommended_actions, after get_overall_status(): one step
\* per entry of the status that is falsy, in this order
get_recommended_actions(status) ==
    (IF ~status.api_running THEN <<"Start API server">> ELSE <<>>)
    \o (IF ~status.printer_ready
        THEN <<"Check printer connection and status">> ELSE <<>>)
    \o (IF status.tunnel = NoTunnelInfo
        THEN <<"Set up and start tunnel (Cloudflare recommended)">> ELSE <<>>)

\* SystemStatus.get_recommended_actions.  The inputs are those of the
\* get_overall_status() it calls; the result record holds the list, the status
\* it was computed from, and activeAtReturn.
GetRecommendedActions(api_running, printer_ready, api, D1, D2) ==
    /\ \A pid \in D1 \cup D2 : owner[pid] # Free
    /\ D1 \cap D2 = {}
    /\ api # None => Agents(owner, Ngrok) # {}
    /\ \E r \in {get_overall_status(api_running, printer_ready, api, D1, D2)} :
          /\ api \in (IF r.apiAsked THEN ApiAnswers(r.st.own) ELSE {None})
          /\ owner' = r.st.own
          /\ pidFile' = r.st.pf
          /\ logFile' = r.st.lg
          /\ activeTunnel' = r.activeTunnel
          /\ ngrokUrl' = r.ngrokUrl
          /\ ret' = [op |-> "get_recommended_actions",
                     actions |-> get_recommended_actions(r.status),
                     status |-> r.status,
                     activeAtReturn |-> {p \in Providers : is_active(p, r.st)}]
    /\ UNCHANGED <<rows, customDomain, setupVars, backendConn>>

\* ------------------------------------------- terminate_process_group()
\* a process that never exits on SIGTERM
Never == MaxTimeout + 1

\* what the signalled process does on SIGTERM: the number of liveness polls of
\* the caller it is still running at (0: it has exited before the first poll),
\* or Never
ExitDelays == 0..MaxTimeout \cup {Never}

\* the process table after process pid has exited: the entry is gone when its
\* parent reaps it at once, else it stays as a zombie
Exited(own, pid, reaped) ==
    [own EXCEPT ![pid] = IF reaped THEN Free ELSE Zombie]

\* ProcessManager.terminate_process_group(pid, timeout).  Inputs: the PID, the
\* timeout, when the process exits on SIGTERM (e), and whether its parent reaps
\* it as soon as it exits.
\* The result record: the signals sent in order, the number of liveness polls
\* made, whether every poll found the process (allAlive), and what
\* is_process_running(pid) answers at return (aliveAfter).
Terminate(pid, timeout, e, reaped) ==
    LET live0 == owner[pid] \notin {Free, Zombie}
        \* the process has exited on SIGTERM before poll i
        exitedAt(i) == live0 /\ e < i
        \* is_process_running(pid) at poll i
        seen(i) == ~(exitedAt(i) /\ reaped)
        firstGone == {i \in 1..timeout : ~seen(i)}
        \* the process has exited on SIGTERM before the caller escalates
        exitedOnTerm == live0 /\ e # Never
        result(signals, polls, own1) ==
            /\ owner' = own1
            /\ ret' = [op |-> "terminate", pid |-> pid, timeout |-> timeout,
                       live0 |-> live0, result |-> TRUE, signals |-> signals,
                       polls |-> polls,
                       allAlive |-> \A i \in 1..polls : seen(i),
                       aliveAfter |-> is_process_running(own1, pid)]
    IN
    /\ IF ~is_process_running(owner, pid) THEN
           \* os.getpgid(pid) raises ProcessLookupError: "Already dead"
           result(<<>>, 0, owner)
       ELSE IF firstGone # {} THEN
           \* a poll finds the process gone: return True
           LET i == CHOOSE j \in firstGone : \A k \in firstGone : j <= k
           IN  result(<<"TERM">>, i, Exited(owner, pid, reaped))
       ELSE IF exitedOnTerm /\ reaped THEN
           \* gone after the last poll: os.getpgid(pid) raises, no SIGKILL
           result(<<"TERM">>, timeout, Exited(owner, pid, reaped))
       ELSE
           \* SIGKILL to the group of a running process or of a zombie; the
           \* function returns without waiting for the process
           result(<<"TERM", "KILL">>, timeout,
                  IF owner[pid] = Zombie THEN owner
                  ELSE Exited(owner, pid, reaped))
    /\ UNCHANGED <<pidFile, logFile, rows, customDomain, ngrokUrl, activeTunnel,
                   setupVars, backendConn>>

\* the parent of an exited process collects its exit status (wait), or the
\* parent exits and init does
Reap(pid) ==
    /\ owner[pid] = Zombie
    /\ owner' = Exit(owner, {pid})
    /\ UNCHANGED <<pidFile, logFile, rows, customDomain, ngrokUrl, activeTunnel,
                   setupVars, backendConn, ret>>

\* ------------------------------------------------------------ config store
\* values of TunnelConfig.config_data: None, the empty dict and a dict with
\* one entry
EmptyDict == <<"{", "}">>

OneEntryDict == <<"{", "key", ":", "value", "}">>

ConfigDatas == {None, EmptyDict, OneEntryDict}

\* json.dumps(d): the JSON text of the dict
json_dumps(d) == <<"'">> \o d \o <<"'">>

\* json.loads(s): the dict the JSON text denotes
json_loads(s) == SubSeq(s, 2, Len(s) - 1)

\* Python truth value of a config_data value or of a TEXT column: None, the
\* empty dict and the empty string are false
Truthy(x) == x # None /\ x # EmptyDict

\* the row save_tunnel_config writes for config c:
\* config_json = json.dumps(config.config_data) if config.config_data else None
row_of(c) ==
    [c EXCEPT !.config_data = IF Truthy(@) THEN json_dumps(@) ELSE None]

\* the TunnelConfig get_tunnel_config builds from a row:
\* config_data = json.loads(row['config_data']) if row['config_data'] else None
config_of(row) ==
    IF row = NoRecord THEN NoRecord
    ELSE [row EXCEPT !.config_data = IF Truthy(@) THEN json_loads(@) ELSE None]

\* names under which the store is used
StoreNames == {Named, Quick}

\* the TunnelConfig objects a caller may save
TunnelConfigs ==
    [name : StoreNames, is_configured : BOOLEAN, is_active : BOOLEAN,
     current_url : {None} \cup QuickUrls, domain_mapping : {None} \cup Domains,
     config_data : ConfigDatas]

\* DatabaseManager.save_tunnel_config(config)
SaveTunnelConfig(c) ==
    /\ rows' = save_tunnel_config(rows, row_of(c))
    /\ ret' = [op |-> "save_tunnel_config", config |-> c]
    /\ UNCHANGED <<owner, pidFile, logFile, customDomain, ngrokUrl, activeTunnel,
                   setupVars, backendConn>>

\* DatabaseManager.get_tunnel_config(name)
GetTunnelConfig(n) ==
    /\ ret' = [op |-> "get_tunnel_config", name |-> n,
               config |-> config_of(get_tunnel_config(rows, n))]
    /\ UNCHANGED <<owner, pidFile, logFile, rows, customDomain, ngrokUrl,
                   activeTunnel, setupVars, backendConn>>

\* DatabaseManager.update_tunnel_status(name, is_active, current_url)
UpdateTunnelStatus(n, a, u) ==
    /\ rows' = update_tunnel_status(rows, n, a, u)
    /\ ret' = [op |-> "update_tunnel_status", name |-> n, is_active |-> a,
               current_url |-> u]
    /\ UNCHANGED <<owner, pidFile, logFile, customDomain, ngrokUrl, activeTunnel,
                   setupVars, backendConn>>

\* ------------------------------------------------ cleanup_stale_pid_file()
\* ProcessManager.read_pid_file: the PID in the file, None (here NoFile, which
\* is as falsy as None) when the file is absent
read_pid_file(pf, p) == pf[p]

\* ProcessManager.cleanup_stale_pid_file on the PID file of provider p
\* (os.remove is taken to succeed).  The result record: the answer, the
\* content of the PID file on entry (pid0) and whether a process with that PID
\* existed on entry (alive0).
CleanupStalePidFile(p) ==
    LET pid == read_pid_file(pidFile, p)
        stale == pid # NoFile /\ ~is_process_running(owner, pid)
    IN
    /\ pidFile' = IF stale THEN [pidFile EXCEPT ![p] = NoFile] ELSE pidFile
    /\ ret' = [op |-> "cleanup_stale_pid_file", p |-> p, result |-> stale,
               pid0 |-> pid, alive0 |-> (pid # NoFile /\ owner[pid] # Free)]
    /\ UNCHANGED <<owner, logFile, rows, customDomain, ngrokUrl, activeTunnel,
                   setupVars, backendConn>>

\* ------------------------------------------------------- application start
\* ZebraPrintApplication._setup_dependencies: the program is started again and
\* builds fresh provider objects (CloudflareNamedTunnel without custom_domain,
\* NgrokTunnel without _tunnel_url) and a fresh SystemStatus (_active_tunnel =
\* None); files, processes and the store are what the earlier run left
NewApplication ==
    /\ customDomain' = None
    /\ ngrokUrl' = None
    /\ activeTunnel' = "none"
    /\ ret' = [op |-> "new_application"]
    /\ UNCHANGED <<owner, pidFile, logFile, rows, setupVars, backendConn>>

\* --------------------------------------------------- two start() in flight
\* Two callers run start() of provider p at the same time.  While they do,
\* `ret` holds for each call its position (pc), what its is_active() answered
\* (saw), the PID of the agent it spawned (pid), and which call wrote the PID
\* file last (last):
\*   "check"  about to test `if self.is_active()`
\*   "spawn"  past the test and the configuration check, about to call Popen
\*   "write"  Popen returned, about to write process.pid to the PID file
\*   "wait"   PID written, waiting for the health check / the URL in the log
\*   "done"   returned
Callers == {1, 2}

InFlight == ret.op = "start_race" /\ \E c \in Callers : ret.pc[c] # "done"

\* a lock around start(): a call enters only when no other call is inside
start_may_enter_locked(pc, c) ==
    \A d \in Callers \ {c} : pc[d] \in {"check", "done"}

\* start() takes no lock and tests no marker of another call in progress: a
\* call enters whatever the other call is doing
start_may_enter(pc, c) == TRUE

\* two callers invoke start() of provider p
BeginRace(p) ==
    /\ ~InFlight
    /\ ret' = [op |-> "start_race", p |-> p,
               pc |-> [c \in Callers |-> "check"],
               saw |-> [c \in Callers |-> FALSE],
               pid |-> [c \in Callers |-> NoFile],
               last |-> 0]
    /\ UNCHANGED <<owner, pidFile, logFile, rows, customDomain, ngrokUrl,
                   activeTunnel, setupVars, backendConn>>

\* `if self.is_active(): return ...` and, for the named provider, the
\* configuration check that follows it
RaceCheck(c) ==
    /\ ret.op = "start_race"
    /\ ret.pc[c] = "check"
    /\ start_may_enter(ret.pc, c)
    /\ LET p == ret.p
           a == is_active(p, Files)
           st1 == after_is_active(p, Files)
           stored == get_tunnel_config(rows, p)
           returns ==
               IF p = Quick
               THEN a /\ stored # NoRecord /\ stored.current_url # None
               ELSE a \/ stored = NoRecord \/ ~stored.is_configured
       IN
       /\ pidFile' = st1.pf
       /\ logFile' = st1.lg
       /\ customDomain' =
             IF p = Named /\ ~returns /\ stored.domain_mapping # None
             THEN stored.domain_mapping ELSE customDomain
       /\ ret' = [ret EXCEPT !.saw[c] = a,
                             !.pc[c] = IF returns THEN "done" ELSE "spawn"]
    /\ UNCHANGED <<owner, rows, ngrokUrl, activeTunnel, setupVars, backendConn>>

\* open(log_file, 'w') and subprocess.Popen(cmd, ...)
RaceSpawn(c, pid) ==
    /\ ret.op = "start_race"
    /\ ret.pc[c] = "spawn"
    /\ owner[pid] = Free
    /\ owner' = Popen(owner, pid, ret.p)
    /\ logFile' = IF ret.p = Quick THEN TRUE ELSE logFile
    /\ ret' = [ret EXCEPT !.pid[c] = pid, !.pc[c] = "write"]
    /\ UNCHANGED <<pidFile, rows, customDomain, ngrokUrl, activeTunnel, setupVars,
                   backendConn>>

\* with open(self.pid_file, 'w') as f: f.write(str(process.pid))
RaceWrite(c) ==
    /\ ret.op = "start_race"
    /\ ret.pc[c] = "write"
    /\ pidFile' = [pidFile EXCEPT ![ret.p] = ret.pid[c]]
    /\ ret' = [ret EXCEPT !.pc[c] = "wait", !.last = c]
    /\ UNCHANGED <<owner, logFile, rows, customDomain, ngrokUrl, activeTunnel,
                   setupVars, backendConn>>

\* the rest of start(): the named provider's health check, the quick
\* provider's URL discovery (found: the URL u showed up within the polls), and
\* update_tunnel_status on success
RaceFinish(c, found, u) ==
    /\ ret.op = "start_race"
    /\ ret.pc[c] = "wait"
    /\ LET ok == IF ret.p = Named THEN verify_tunnel_health(Files) ELSE found
           url == IF ret.p = Named THEN HttpsUrl(customDomain) ELSE u
       IN rows' = IF ok THEN update_tunnel_status(rows, ret.p, TRUE, url) ELSE rows
    /\ ret' = [ret EXCEPT !.pc[c] = "done"]
    /\ UNCHANGED <<owner, pidFile, logFile, customDomain, ngrokUrl, activeTunnel,
                   setupVars, backendConn>>

\* ------------------------------------------------------ specifications
ApiInputs == NgrokUrls \cup {None}

Environment ==
    \/ \E pid \in PIDs : ProcessDies(pid)
    \/ \E pid \in PIDs : OtherProcessStarts(pid)

NamedCalls ==
    \/ BackendConnChanges
    \/ \E d \in DomainInputs : SetCustomDomain(d)
    \/ \E createOK \in BOOLEAN, dnsAns \in DnsAnswers : SetupNamed(createOK, dnsAns)
    \/ \E pid \in PIDs, survives \in BOOLEAN : StartNamed(pid, survives)
    \/ \E obeys \in BOOLEAN : Stop(Named, obeys)
    \/ IsActive(Named)
    \/ GetStatus(Named, None)

QuickCalls ==
    \/ SetupQuick
    \/ \E survives \in BOOLEAN, pid \in PIDs, k \in PollPoints, u \in QuickUrls :
          StartQuick(pid, survives, k, u)
    \/ \E obeys \in BOOLEAN : Stop(Quick, obeys)
    \/ IsActive(Quick)
    \/ GetStatus(Quick, None)

NgrokCalls ==
    \/ SetupNgrok
    \/ \E survives \in BOOLEAN, pid \in PIDs, api \in ApiInputs :
          StartNgrok(pid, survives, api)
    \/ \E obeys \in BOOLEAN : Stop(Ngrok, obeys)
    \/ IsActive(Ngrok)
    \/ \E api \in ApiInputs : GetStatus(Ngrok, api)

CoordCalls ==
    \/ \E api_running \in BOOLEAN, printer_ready \in BOOLEAN, api \in ApiInputs,
          D1 \in DeathInputs, D2 \in DeathInputs :
          \/ GetOverallStatus(api_running, printer_ready, api, D1, D2)
          \/ GetRecommendedActions(api_running, printer_ready, api, D1, D2)
    \/ GetActiveTunnel

TermCalls ==
    \/ \E pid \in PIDs, timeout \in 0..MaxTimeout, e \in ExitDelays,
          reaped \in BOOLEAN : Terminate(pid, timeout, e, reaped)
    \/ \E pid \in PIDs : Reap(pid)

\* The whole system: every call of every component, in any order.
Next ==
    \/ Environment \/ NamedCalls \/ QuickCalls \/ NgrokCalls
    \/ CoordCalls \/ TermCalls

Spec == Init /\ [][Next]_vars

\* The providers do not call each other and share only the PID space and the
\* table; each is also specified alone, next to processes that are not its
\* own, on a host where what the other providers need is not installed.
InitNamed == Init /\ installed \subseteq {"cloudflared", "cert.pem"}

NextNamed == Environment \/ NamedCalls

SpecNamed == InitNamed /\ [][NextNamed]_vars

InitQuick == Init /\ installed \subseteq {"cloudflared"}

NextQuick == Environment \/ QuickCalls

SpecQuick == InitQuick /\ [][NextQuick]_vars

InitNgrok == Init /\ installed \subseteq {"ngrok", "ngrok authtoken"}

NextNgrok == Environment \/ NgrokCalls

SpecNgrok == InitNgrok /\ [][NextNgrok]_vars

\* setup() and set_custom_domain() of the three providers, on every host.
SetupCalls ==
    \/ \E d \in DomainInputs : SetCustomDomain(d)
    \/ \E createOK \in BOOLEAN, dnsAns \in DnsAnswers : SetupNamed(createOK, dnsAns)
    \/ SetupQuick
    \/ SetupNgrok

SpecSetup == Init /\ [][SetupCalls]_vars

\* set_custom_domain alone, called with every string of the bounded alphabet
InitDomain == Init /\ installed = {} /\ ~remoteTunnel

DomainCalls == \E d \in DomainStrings : SetCustomDomain(d)

SpecDomain == InitDomain /\ [][DomainCalls]_vars

\* The coordinator over the three providers, on a host where everything is
\* installed.  The providers' calls that decide what the coordinator sees
\* (set-up, start, stop) take the inputs under which they succeed.
ProviderCalls ==
    \/ \E d \in Domains : SetCustomDomain(d)
    \/ SetupQuick
    \/ \E pid \in PIDs : StartNamed(pid, TRUE)
    \/ \E pid \in PIDs, u \in QuickUrls : StartQuick(pid, TRUE, 1, u)
    \/ \E pid \in PIDs, api \in NgrokUrls : StartNgrok(pid, TRUE, api)
    \/ \E p \in Providers : Stop(p, TRUE)

InitCoord == Init /\ installed = Artifacts /\ ~remoteTunnel

NextCoord ==
    \/ \E pid \in PIDs : ProcessDies(pid)
    \/ ProviderCalls
    \/ CoordCalls

SpecCoord == InitCoord /\ [][NextCoord]_vars

\* the coordinator's status call with one collaborator raising
NextFault ==
    \/ \E pid \in PIDs : ProcessDies(pid)
    \/ ProviderCalls
    \/ \E fault \in Collaborators : GetOverallStatusFault(fault)

SpecFault == InitCoord /\ [][NextFault]_vars

\* ProcessManager alone, among processes that start and exit on their own.
InitTerm == Init /\ installed = {} /\ ~remoteTunnel

NextTerm == Environment \/ TermCalls

SpecTerm == InitTerm /\ [][NextTerm]_vars

\* the config store alone
InitStore == Init /\ installed = {} /\ ~remoteTunnel

StoreCalls ==
    \/ \E c \in TunnelConfigs : SaveTunnelConfig(c)
    \/ \E n \in StoreNames : GetTunnelConfig(n)
    \/ \E n \in StoreNames, a \in BOOLEAN, u \in {None} \cup QuickUrls :
          UpdateTunnelStatus(n, a, u)

SpecStore == InitStore /\ [][StoreCalls]_vars

\* PID files written by start() and cleaned by cleanup_stale_pid_file, with
\* PIDs reused by processes of this user and of other users
InitPid == Init /\ installed = {"cloudflared"} /\ ~remoteTunnel

NextPid ==
    \/ Environment
    \/ \E pid \in PIDs : ForeignProcessStarts(pid)
    \/ \E pid \in PIDs, survives \in BOOLEAN, u \in QuickUrls :
          StartQuick(pid, survives, 1, u)
    \/ \E p \in {Named, Quick} : CleanupStalePidFile(p)

SpecPid == InitPid /\ [][NextPid]_vars

\* the named provider over several runs of the program
NextNamedRuns == NextNamed \/ NewApplication

SpecNamedRuns == InitNamed /\ [][NextNamedRuns]_vars

\* two concurrent start() calls of one provider, between sequential calls
InitRace == Init /\ installed = {"cloudflared", "cert.pem"} /\ ~remoteTunnel

NextRace ==
    \/ \E pid \in PIDs : ProcessDies(pid)
    \/ ~InFlight /\ \E d \in Domains : SetCustomDomain(d)
    \/ ~InFlight /\ \E p \in {Named, Quick} : Stop(p, TRUE)
    \/ \E p \in {Named, Quick} : BeginRace(p)
    \/ \E c \in Callers : RaceCheck(c)
    \/ \E c \in Callers, pid \in PIDs : RaceSpawn(c, pid)
    \/ \E c \in Callers : RaceWrite(c)
    \/ \E c \in Callers, found \in BOOLEAN, u \in QuickUrls : RaceFinish(c, found, u)

SpecRace == InitRace /\ [][NextRace]_vars

\* the coordinator's read-only calls over the quick and the ngrok provider,
\* whose start() takes every answer of the management API, also none
NextReadOnly ==
    \/ \E pid \in PIDs : ProcessDies(pid)
    \/ SetupQuick
    \/ \E pid \in PIDs, u \in QuickUrls : StartQuick(pid, TRUE, 1, u)
    \/ \E pid \in PIDs, api \in ApiInputs : StartNgrok(pid, TRUE, api)
    \/ \E p \in {Quick, Ngrok} : Stop(p, TRUE)
    \/ CoordCalls

SpecReadOnly == InitCoord /\ [][NextReadOnly]_vars

\* the named and the quick provider side by side: every call that writes a
\* config record, and agents that exit on their own
InitRecords == Init /\ installed = {"cloudflared", "cert.pem"} /\ ~remoteTunnel

NextRecords ==
    \/ \E pid \in PIDs : ProcessDies(pid)
    \/ \E d \in Domains : SetCustomDomain(d)
    \/ \E createOK \in BOOLEAN, dnsAns \in DnsAnswers : SetupNamed(createOK, dnsAns)
    \/ SetupQuick
    \/ \E pid \in PIDs, survives \in BOOLEAN : StartNamed(pid, survives)
    \/ \E pid \in PIDs, k \in PollPoints, u \in QuickUrls : StartQuick(pid, TRUE, k, u)
    \/ \E p \in {Named, Quick} : Stop(p, TRUE)

SpecRecords == InitRecords /\ [][NextRecords]_vars

\* ------------------------------------------------------------------ claims
\* C1: for every provider, start() while is_active() is true returns ok=true
\* without spawning another agent process, and the PID file holds after the
\* call what it held before it, whatever the persisted record contains.
C1_StartWhileActiveSpawnsNothing ==
    (ret.op = "start" /\ ret.active0) =>
        (ret.ok /\ ~ret.spawned /\ ret.samePid)

\* C2: for every provider, whenever start() returns ok=true, an agent process
\* of that provider is alive at the moment of return and the PID file records
\* the PID of that live process.
C2_StartOkMeansLiveRecordedAgent ==
    (ret.op = "start" /\ ret.ok) => ret.liveAfter

\* C5: for every provider, if the PID file exists and holds a PID of no running
\* process, is_active() returns false and the PID file no longer exists when
\* the call returns.
C5_StalePidFileIsRemoved ==
    (ret.op = "is_active" /\ ret.stale) => (~ret.result /\ ~ret.hasFile)

\* C6: for every provider, stop() returns ok=true whenever no agent process of
\* the provider is running, with the PID file absent or holding a dead PID.
C6_StopWithNothingRunningIsOk ==
    (ret.op = "stop" /\ ~ret.running0) => ret.ok

\* C7: for the named provider, whenever no persisted record with
\* is_configured=true exists, start() returns ok=false, spawns no process,
\* writes no PID file, and the provider is not reported active afterwards.
C7_UnconfiguredNamedStartFails ==
    (ret.op = "start" /\ ret.p = Named /\ ~ret.configured0) =>
        (~ret.ok /\ ~ret.spawned /\ ret.samePid /\ ~ret.activeAfter)

\* C8: for every provider, is_active() returns true only if the PID file was
\* present and the OS liveness probe of the PID recorded in it succeeded.
C8_ActiveOnlyByPidProbe ==
    (ret.op = "is_active" /\ ret.result) => (ret.hadFile /\ ~ret.stale)

\* C3: integration_ready of get_overall_status() is true exactly when the API
\* runs, the printer is ready and is_active() of at least one registered
\* provider holds when the call returns, also when a tunnel process dies between
\* two liveness probes of the call.
C3_IntegrationReadyIffAllThreeLive ==
    ret.op = "get_overall_status" =>
        (ret.status.integration_ready <=>
            (ret.status.api_running /\ ret.status.printer_ready
             /\ ret.activeAtReturn # {}))

\* C4: webhook_url of get_overall_status() is non-null only if the status shows
\* an active provider with a URL, and then it is that URL followed by "/print";
\* it is null when no provider is active, whatever current_url a persisted
\* record holds.
C4_WebhookOnlyFromActiveTunnel ==
    (ret.op = "get_overall_status" /\ ret.status.webhook_url # None) =>
        /\ ret.status.tunnel # NoTunnelInfo
        /\ ret.status.tunnel.status.active
        /\ ret.status.webhook_url = WebhookOf(ret.status.tunnel.status.url)

\* C9: for every provider, a setup() that directly follows a setup() of the
\* same provider that returned ok=true, in an unchanged environment, returns
\* ok=true, issues no tunnel-create request, gets no DNS answer other than
\* "already exists", and leaves is_configured and domain_mapping of the
\* persisted record as the first call left them.
C9_SetupTwiceIsIdempotent ==
    (ret.op = "setup" /\ ret.again) =>
        /\ ret.ok
        /\ ~ret.created
        /\ ret.dns \in {"none", "already exists"}
        /\ ret.kept

\* the named provider's second setup() in a row has succeeded on the DNS
\* answer "already exists"
C9_Witness ==
    /\ ret.op = "setup" /\ ret.again /\ ret.p = Named
    /\ ret.ok /\ ret.dns = "already exists"
    /\ ret.steps[Len(ret.steps)] = "persist"

\* C10: terminate(pid, timeout) on a live process sends SIGTERM first, sends
\* SIGKILL only after SIGTERM and only if all `timeout` liveness polls found
\* the process, and is_process_running(pid) is false when the call returns,
\* whether the process exits on SIGTERM, ignores it, or was dead already.
C10_TerminateLeavesNoProcess ==
    ret.op = "terminate" =>
        /\ ret.live0 => (ret.signals # <<>> /\ ret.signals[1] = "TERM")
        /\ (\E i \in 1..Len(ret.signals) : ret.signals[i] = "KILL") =>
              (ret.signals = <<"TERM", "KILL">> /\ ret.polls = ret.timeout
               /\ ret.allAlive)
        /\ ~ret.aliveAfter

\* C11: get_recommended_actions() lists the API step exactly when the API is
\* not running, the printer step exactly when the printer is not ready, and the
\* tunnel step exactly when no registered provider is active at return (also
\* when one is configured but down), in the order API, printer, tunnel; so the
\* list is empty exactly when all three are up.
C11_RecommendedActionsMatchFailures ==
    ret.op = "get_recommended_actions" =>
        ret.actions =
            (IF ~ret.status.api_running THEN <<"Start API server">> ELSE <<>>)
            \o (IF ~ret.status.printer_ready
                THEN <<"Check printer connection and status">> ELSE <<>>)
            \o (IF ret.activeAtReturn = {}
                THEN <<"Set up and start tunnel (Cloudflare recommended)">>
                ELSE <<>>)

\* C12: set_custom_domain(d) returns ok=false and leaves the persisted record
\* and custom_domain as they were for every d that is empty, has no '.',
\* contains whitespace, contains an uppercase letter, or has an empty label
\* (leading dot, trailing dot, two consecutive dots).
C12_MalformedDomain(d) ==
    \/ d = <<>>
    \/ \A i \in 1..Len(d) : d[i] # "."
    \/ \E i \in 1..Len(d) : d[i] \in {" ", "A"}
    \/ d[1] = "."
    \/ d[Len(d)] = "."
    \/ \E i \in 1..(Len(d) - 1) : d[i] = "." /\ d[i + 1] = "."

C12_MalformedDomainIsRejected ==
    (ret.op = "set_custom_domain" /\ C12_MalformedDomain(ret.domain)) =>
        /\ ~ret.ok
        /\ customDomain = ret.domain0
        /\ get_tunnel_config(rows, Named) = ret.record0

\* C13: for every lowercase, whitespace-free domain d with at least one '.',
\* set_custom_domain(d) returns ok=true and the persisted record of the named
\* provider then shows domain_mapping = d and is_configured = true; after a
\* sequence of accepted calls the record holds the domain of the last one.
C13_WellFormedDomain(d) ==
    /\ \E i \in 1..Len(d) : d[i] = "."
    /\ \A i \in 1..Len(d) : d[i] \notin {" ", "A"}

C14_NamedTunnelPublishesItsDomain ==
    (/\ ret.op = "get_overall_status"
     /\ Named \in ret.activeAtReturn
     /\ get_tunnel_config(rows, Named) # NoRecord
     /\ get_tunnel_config(rows, Named).domain_mapping # None) =>
        /\ is_active(Named, Files) =>
               get_status(Named, Files, None).url
                   = HttpsUrl(get_tunnel_config(rows, Named).domain_mapping)
        /\ ret.status.webhook_url
               = WebhookOf(HttpsUrl(get_tunnel_config(rows, Named).domain_mapping))

\* C15: get_active_tunnel() returns, on every call and after any history, the
\* first provider in registration order whose is_active() is true at that
\* call, and None exactly when no registered provider is active; with two
\* providers active it returns the earlier-registered one.
C15_FirstActiveInRegistrationOrder ==
    ret.op = "get_active_tunnel" =>
        IF ret.active = {} THEN ret.tunnel = "none"
        ELSE \E i \in 1..Len(ProviderOrder) :
                /\ ret.tunnel = ProviderOrder[i]
                /\ ProviderOrder[i] \in ret.active
                /\ \A j \in 1..(i - 1) : ProviderOrder[j] \notin ret.active

\* C16: in get_overall_status(), when no registered provider is active: if some
\* persisted record has is_configured=true the 'tunnel' entry is non-null with
\* configured=true and status.active=false, and if no record has
\* is_configured=true the 'tunnel' entry is null.  The 'tunnel' entry never
\* reports active=true for a provider whose is_active() is false.
C16_ConfiguredButInactiveIsReported ==
    ret.op = "get_overall_status" =>
        /\ ret.activeAtEntry = {} =>
               IF \E i \in 1..Len(rows) : rows[i].is_configured
               THEN /\ ret.status.tunnel # NoTunnelInfo
                    /\ ret.status.tunnel.configured
                    /\ ~ret.status.tunnel.status.active
               ELSE ret.status.tunnel = NoTunnelInfo
        /\ (ret.status.tunnel # NoTunnelInfo /\ ret.status.tunnel.status.active) =>
               ret.status.tunnel.name \in ret.activeAtReturn

\* a call with a configured record and no provider active
C16_Witness ==
    /\ ret.op = "get_overall_status"
    /\ ret.activeAtEntry = {}
    /\ \E i \in 1..Len(rows) : rows[i].is_configured
    /\ ret.status.tunnel # NoTunnelInfo
    /\ ~ret.status.tunnel.status.active

\* C17: if exactly one collaborator call raises an unexpected exception during
\* get_overall_status(), the call does not raise: it returns a status with the
\* real values of the other collaborators and the failing one degraded.
C17_OneFaultDoesNotCrashStatus ==
    (ret.op = "get_overall_status" /\ ret.fault # "none") => ~ret.raised

\* C18: after start() returned ok=false because the spawned agent never became
\* healthy or never published a URL, retrying start() on the same provider is
\* safe: never two agent processes of that provider alive at once, and every
\* live agent process is the one recorded in the PID file.
C18_RetryAfterFailedStartIsSafe ==
    (ret.op = "start" /\ ret.retry) =>
        /\ Cardinality(Agents(owner, ret.p)) <= 1
        /\ \A pid \in Agents(owner, ret.p) : pidFile[ret.p] = pid

\* C19: over any sequence of setup/start/stop/is_active/get_status calls, with
\* processes free to die or to ignore the graceful signal: if the PID file of
\* a provider is absent, no agent process spawned by that provider is alive
\* (the PID file is deleted only once the process is confirmed stopped or
\* the PID confirmed dead).
C19_NoPidFileMeansNoAgent ==
    \A p \in Providers : pidFile[p] = NoFile => Agents(owner, p) = {}

\* C20: for the store-backed providers (named and quick): immediately after
\* start() returns ok=true with URL U the provider's persisted record exists
\* with is_active=true and current_url=U; immediately after stop() returns
\* ok=true the record has is_active=false and current_url=null; no start() or
\* stop() removes a persisted record.
C20_RecordFollowsStartAndStop ==
    /\ (ret.op = "start" /\ ret.p \in {Named, Quick} /\ ret.ok) =>
           /\ get_tunnel_config(rows, ret.p) # NoRecord
           /\ get_tunnel_config(rows, ret.p).is_active
           /\ get_tunnel_config(rows, ret.p).current_url = ret.url
    /\ (ret.op = "stop" /\ ret.p \in {Named, Quick} /\ ret.ok
           /\ get_tunnel_config(rows, ret.p) # NoRecord) =>
           /\ ~get_tunnel_config(rows, ret.p).is_active
           /\ get_tunnel_config(rows, ret.p).current_url = None

\* C21: the config store is an upsert-by-name map: save_tunnel_config(c)
\* followed by get_tunnel_config(c.name) returns a record with the same
\* is_configured, is_active, current_url, domain_mapping and config_data;
\* saving under an existing name leaves at most one record per name and the
\* records of other names unchanged; update_tunnel_status(name, a, u) on an
\* existing record makes the record show is_active=a and current_url=u with
\* the other fields unchanged.
C21_OtherNamesUnchanged(n) ==
    \A m \in StoreNames \ {n} : get_tunnel_config(rows', m) = get_tunnel_config(rows, m)

C21_StoreIsUpsertByName ==
    [][/\ ret'.op = "save_tunnel_config" =>
            /\ config_of(get_tunnel_config(rows', ret'.config.name)) = ret'.config
            /\ \A i, j \in 1..Len(rows') : rows'[i].name = rows'[j].name => i = j
            /\ C21_OtherNamesUnchanged(ret'.config.name)
       /\ (ret'.op = "update_tunnel_status"
              /\ get_tunnel_config(rows, ret'.name) # NoRecord) =>
            /\ get_tunnel_config(rows', ret'.name)
                  = [get_tunnel_config(rows, ret'.name)
                        EXCEPT !.is_active = ret'.is_active,
                               !.current_url = ret'.current_url]
            /\ C21_OtherNamesUnchanged(ret'.name)
      ]_vars

C23_AnyHealthMethodSuffices ==
    [][(/\ ret'.op = "is_active"
        /\ ret'.p = Named
        /\ owner' = owner
        /\ backendConn' = backendConn) =>
           (ret'.result <=> \/ pid_probe(Named, Files)
                            \/ pgrep_named(owner)
                            \/ tunnel_list_connected)
      ]_vars

\* C24: on every path on which the named provider's start() returns ok=true
\* (freshly spawned or already running, on a freshly constructed provider
\* object or a reused one) the returned URL is 'https://' followed by the
\* domain_mapping of the persisted record.
C24_StartReturnsConfiguredDomain ==
    (/\ ret.op = "start"
     /\ ret.p = Named
     /\ ret.ok
     /\ get_tunnel_config(rows, Named) # NoRecord
     /\ get_tunnel_config(rows, Named).domain_mapping # None) =>
        ret.url = HttpsUrl(get_tunnel_config(rows, Named).domain_mapping)

\* C25: the quick provider's start() always terminates: its URL-discovery loop
\* makes at most 30 polls, the call returns ok=true with a URL exactly when
\* the public-URL pattern appeared in the log within those polls, and
\* otherwise ok=false with a null URL, whether the agent is still running or
\* exited immediately.
C25_QuickStartPollsAreBounded ==
    (ret.op = "start" /\ ret.p = Quick) =>
        /\ ret.polls <= PollLimit
        /\ ret.ok => ret.url # None
        /\ ~ret.ok => ret.url = None
        /\ ret.spawned =>
              /\ ret.ok <=> ret.urlPoll <= PollLimit
              /\ ret.ok => ret.polls = ret.urlPoll

\* the URL never showed up: start() gave up after the last poll and returned
\* ok=false while the agent it spawned is still running
C25_Witness ==
    /\ ret.op = "start"
    /\ ret.p = Quick
    /\ ret.spawned
    /\ ret.urlPoll > PollLimit
    /\ ret.polls = PollLimit
    /\ ~ret.ok
    /\ ret.liveAfter

\* C26: the named provider's setup() runs its steps in the order binary check,
\* authentication-artifact check, domain available, remote tunnel
\* exists-or-create, ingress config generation, DNS route, persist; the first
\* failing step returns ok=false and no later step is executed, so whenever
\* setup() returns ok=false the persisted record is exactly what it was
\* before the call.
C26_SetupOrder ==
    <<"binary", "auth", "domain", "tunnel", "config", "dns", "persist">>

C26_FailedSetupLeavesRecord ==
    (ret.op = "setup" /\ ret.p = Named) =>
        /\ ret.steps = SubSeq(C26_SetupOrder, 1, Len(ret.steps))
        /\ ret.ok <=> ret.steps = C26_SetupOrder
        /\ "cloudflared" \notin installed => ret.steps = <<"binary">>
        /\ ("cloudflared" \in installed /\ "cert.pem" \notin installed) =>
              ret.steps = <<"binary", "auth">>
        /\ ret.dns \in {"DNS error", "other error"} =>
              ret.steps = SubSeq(C26_SetupOrder, 1, 6)
        /\ ~ret.ok => ret.untouched

\* setup() failed at the DNS route with a record in the store
C26_Witness ==
    /\ ret.op = "setup"
    /\ ret.p = Named
    /\ ~ret.ok
    /\ ret.dns = "DNS error"
    /\ ret.hadRecord
    /\ ret.untouched

\* C27: with two start() calls on the same provider interleaved, a state is
\* reachable in which both calls observed is_active() = false and both spawned
\* an agent, so two agent processes are alive while the PID file records only
\* the PID written last; no lock or other mutual-exclusion step in start()
\* prevents this.
C27_StartHasNoMutualExclusion ==
    ret.op = "start_race" =>
        /\ \A c \in Callers :
              (ret.pc[c] = "check"
                  /\ \E d \in Callers \ {c} : ret.pc[d] \in {"spawn", "write", "wait"})
              => ENABLED RaceCheck(c)
        /\ (ret.last # 0 /\ pidFile[ret.p] # NoFile) =>
              pidFile[ret.p] = ret.pid[ret.last]

\* both calls saw is_active() = false, both spawned, both agents are alive,
\* and the PID file names only the agent of the call that wrote last
C27_Witness ==
    /\ ret.op = "start_race"
    /\ \A c \in Callers : ~ret.saw[c] /\ ret.pc[c] \in {"wait", "done"}
    /\ ret.pid[1] # ret.pid[2]
    /\ \A c \in Callers : owner[ret.pid[c]] = ret.p
    /\ pidFile[ret.p] = ret.pid[ret.last]

\* a step of one of the coordinator's read-only operations
\* (is_system_ready() is get_overall_status() and a field access)
C28_ReadOnlyStep ==
    ret'.op \in {"get_overall_status", "get_recommended_actions",
                 "get_active_tunnel"}

\* what the read-only operations leave alone and the little they may delete:
\* no config record is written, nothing of the set-up changes, no process is
\* spawned (a process may only exit on its own during the call), a PID file
\* changes only by being deleted when the PID in it is dead, the log file
\* only by being deleted together with the quick provider's stale PID file
C28_PersistedFrame ==
    /\ rows' = rows
    /\ customDomain' = customDomain
    /\ UNCHANGED <<setupVars, backendConn>>
    /\ \A pid \in PIDs : owner'[pid] \in {owner[pid], Free}
    /\ \A p \in Providers :
          pidFile'[p] # pidFile[p] =>
              pidFile'[p] = NoFile /\ owner'[pidFile[p]] = Free
    /\ logFile' # logFile =>
          ~logFile' /\ pidFile[Quick] # NoFile /\ pidFile'[Quick] = NoFile

C29_ReadyStatusIsConsistent ==
    (ret.op = "get_overall_status" /\ ~ret.raised
        /\ ret.status.integration_ready) =>
        /\ ret.status.tunnel # NoTunnelInfo
        /\ ret.status.tunnel.status.active
        /\ ret.status.webhook_url # None

\* the last call was a successful setup() or set_custom_domain() of provider p
\* that found a record of p
C30_Resaved(p) ==
    /\ ret.op \in {"setup", "set_custom_domain"}
    /\ ret.p = p
    /\ ret.ok
    /\ IF ret.op = "setup" THEN ret.hadRecord ELSE ret.record0 # NoRecord

\* C30: a successful setup() or set_custom_domain() on a provider that already
\* has a record replaces the whole record: afterwards is_active = false and
\* current_url = null whatever they were before, even while the agent is
\* running; and a record that says is_active = false turns to true only by a
\* start() that spawns.
C30_ResaveResetsRunState ==
    /\ [](\A p \in {Named, Quick} :
            C30_Resaved(p) =>
                /\ ~get_tunnel_config(rows, p).is_active
                /\ get_tunnel_config(rows, p).current_url = None)
    /\ [][\A p \in {Named, Quick} :
            (/\ get_tunnel_config(rows, p) # NoRecord
             /\ ~get_tunnel_config(rows, p).is_active
             /\ get_tunnel_config(rows', p) # NoRecord
             /\ get_tunnel_config(rows', p).is_active)
            => ret'.op = "start" /\ ret'.p = p /\ ret'.spawned]_vars

\* the named provider's agent is running and recorded as active with its URL;
\* set_custom_domain() succeeded, and now the record says inactive with no
\* URL while is_active() holds
C30_Witness ==
    /\ C30_Resaved(Named)
    /\ ret.op = "set_custom_domain"
    /\ ret.record0.is_active
    /\ ret.record0.current_url # None
    /\ is_active(Named, Files)
    /\ ~get_tunnel_config(rows, Named).is_active
    /\ get_tunnel_config(rows, Named).current_url = None

====
